---- MODULE Spec2Model ----
(***************************************************************************)
(* Model of the propagation engine CRT_Base<T,dim,no_int_states>           *)
(* (src/include/CRT_Base.h): operator tables, the three step operators,    *)
(* the momentum kick, the observable reductions, snapshot I/O and the      *)
(* sequence scheduler run_sequence.                                        *)
(*                                                                         *)
(* Numbers.  Every double of the program is modelled exactly:              *)
(*   - times (m_header.t, m_header.dt, seq.dt, seq.duration) are integers  *)
(*     counting half time quanta; every dt is even, so 0.5*dt is exact;    *)
(*   - angles are integers counting quarter turns, so cos and sin take     *)
(*     the values 0, 1, -1 and the complex products of the code are exact; *)
(*   - a field value is (re + i*im) / 2^sc with integer re, im (the        *)
(*     inverse transform divides by the number of points, which is 2).     *)
(***************************************************************************)
EXTENDS Integers, Sequences, FiniteSets, TLC

----------------------------------------------------------------------------
(* Template parameters and grid size *)

dim == 1

no_int_states == 2

m_no_of_pts == 2

m_ar == 1

m_ar_k == 1

Comps == 0 .. (no_int_states - 1)

Pts == 0 .. (m_no_of_pts - 1)

Axes == 0 .. (dim - 1)

----------------------------------------------------------------------------
(* Bound of the model: the longest descriptor list *)

MaxStages == 2

----------------------------------------------------------------------------
(* Arithmetic of the C++ code *)

Abs(a) == IF a < 0 THEN -a ELSE a

(* int(x/y) and int/int of C++: the quotient truncated toward zero *)
TruncDiv(a, b) ==
  IF (a >= 0 /\ b > 0) \/ (a <= 0 /\ b < 0)
  THEN Abs(a) \div Abs(b)
  ELSE -(Abs(a) \div Abs(b))

(* cos and sin of an angle given in quarter turns *)
Cos(q) == CASE q % 4 = 0 -> 1 [] q % 4 = 1 -> 0 [] q % 4 = 2 -> -1 [] OTHER -> 0

Sin(q) == CASE q % 4 = 0 -> 0 [] q % 4 = 1 -> 1 [] q % 4 = 2 -> 0 [] OTHER -> -1

----------------------------------------------------------------------------
(* Grid / field capability (cft_base.h): coordinates and Fourier transform *)

Get_x(l) == [i \in Axes |-> l - 1]

Get_k(l) == [i \in Axes |-> l]

AllEven(f) == \A l \in Pts : f.re[l] % 2 = 0 /\ f.im[l] % 2 = 0

RECURSIVE Reduce(_)
Reduce(f) ==
  IF f.sc > 0 /\ AllEven(f)
  THEN Reduce([re |-> [l \in Pts |-> f.re[l] \div 2],
               im |-> [l \in Pts |-> f.im[l] \div 2],
               sc |-> f.sc - 1])
  ELSE f

(* ft(-1): forward transform of a two-point field, in place *)
ft_forward(f) ==
  [re |-> [l \in Pts |-> IF l = 0 THEN f.re[0] + f.re[1] ELSE f.re[0] - f.re[1]],
   im |-> [l \in Pts |-> IF l = 0 THEN f.im[0] + f.im[1] ELSE f.im[0] - f.im[1]],
   sc |-> f.sc]

(* ft(1): inverse transform, normalised by the number of points *)
ft_inverse(f) ==
  Reduce([re |-> [l \in Pts |-> IF l = 0 THEN f.re[0] + f.re[1] ELSE f.re[0] - f.re[1]],
          im |-> [l \in Pts |-> IF l = 0 THEN f.im[0] + f.im[1] ELSE f.im[0] - f.im[1]],
          sc |-> f.sc + 1])

ft(f, dir) == IF dir = -1 THEN ft_forward(f) ELSE ft_inverse(f)

(* |Psi[l]|^2 as the pair <<numerator, exponent of the denominator 4>> *)
Density(f, l) == f.re[l] * f.re[l] + f.im[l] * f.im[l]

----------------------------------------------------------------------------
(* Operator table: Init() *)

m_alpha == [i \in Axes |-> 1]

(* k.scale(alpha)*k *)
KineticK2(l) == LET k == Get_k(l) IN k[0] * m_alpha[0] * k[0]

(* phi = dt*(k.scale(m_alpha)*k) with dt = -m_header.dt *)
InitPhi(hdt, l) == (-hdt) * KineticK2(l)

HalfStepTable(hdt) ==
  [l \in Pts |-> <<Cos(InitPhi(hdt, l) \div 2), Sin(InitPhi(hdt, l) \div 2)>>]

FullStepTable(hdt) ==
  [l \in Pts |-> <<Cos(InitPhi(hdt, l)), Sin(InitPhi(hdt, l))>>]

----------------------------------------------------------------------------
(* Step operators.  Each takes the fields F (component -> field) and the   *)
(* header H = [t, dt] and returns the pair after the step.                 *)

(* Psi[l] *= table[l], computed through the temporary tmp1 *)
MultiplyByTable(f, table) ==
  [re |-> [l \in Pts |-> f.re[l] * table[l][1] - f.im[l] * table[l][2]],
   im |-> [l \in Pts |-> LET tmp1 == f.re[l]
                         IN  f.im[l] * table[l][1] + tmp1 * table[l][2]],
   sc |-> f.sc]

KineticStep(F, table) ==
  [c \in Comps |-> ft(MultiplyByTable(ft(F[c], -1), table), 1)]

Do_FT_Step_full(F, H, full_step) ==
  [fields |-> KineticStep(F, full_step),
   header |-> [H EXCEPT !.t = H.t + H.dt]]

Do_FT_Step_half_WholeDt(F, H, half_step) ==
  [fields |-> KineticStep(F, half_step),
   header |-> [H EXCEPT !.t = H.t + H.dt]]

Do_FT_Step_half(F, H, half_step) ==
  [fields |-> KineticStep(F, half_step),
   header |-> [H EXCEPT !.t = H.t + (H.dt \div 2)]]

(* phi[i] = (m_potenial_initialized ? m_Potential[i][l] : 0) * (-m_header.dt);
   the density-dependent terms are commented out in the source *)
NLPhi(H, potInit, Pot, c, l) == (IF potInit THEN Pot[c][l] ELSE 0) * (-H.dt)

Do_NL_Step(F, H, potInit, Pot) ==
  [fields |->
     [c \in Comps |->
        [re |-> [l \in Pts |-> LET phi == NLPhi(H, potInit, Pot, c, l)
                               IN  F[c].re[l] * Cos(phi) - F[c].im[l] * Sin(phi)],
         im |-> [l \in Pts |-> LET phi  == NLPhi(H, potInit, Pot, c, l)
                                   tmp1 == F[c].re[l]
                               IN  F[c].im[l] * Cos(phi) + tmp1 * Sin(phi)],
         sc |-> F[c].sc]],
   header |-> H]

(* Do_NL_Step_Wrapper_one: empty body *)
Do_NL_Step_one(F, H) == [fields |-> F, header |-> H]

(* Psi[l] *= exp(i*px*x(l)) for one field *)
MomentumKick(f, px) ==
  [re |-> [l \in Pts |-> LET a == px[0] * Get_x(l)[0]
                         IN  f.re[l] * Cos(a) - f.im[l] * Sin(a)],
   im |-> [l \in Pts |-> LET a == px[0] * Get_x(l)[0]
                         IN  f.re[l] * Sin(a) + f.im[l] * Cos(a)],
   sc |-> f.sc]

(* The index test shared by Setup_Momentum, Expval_Position, Expval_Momentum,
   Get_Particle_Number, Save_Phi and Append_Phi *)
CompOutOfBounds(comp) == comp < 0 \/ comp > no_int_states

(* m_map_stepfcts as filled by the constructor *)
m_map_stepfcts ==
  [half_step    |-> "Do_FT_Step_half",
   full_step    |-> "Do_FT_Step_full",
   freeprop     |-> "Do_NL_Step",
   freeprop_lin |-> "Do_NL_Step_one"]

MapNames == {"half_step", "full_step", "freeprop", "freeprop_lin"}

MapAt(name) ==
  CASE name = "half_step"    -> m_map_stepfcts.half_step
    [] name = "full_step"    -> m_map_stepfcts.full_step
    [] name = "freeprop"     -> m_map_stepfcts.freeprop
    [] name = "freeprop_lin" -> m_map_stepfcts.freeprop_lin

(* The call through a StepFunction pointer: fct(this, seq) *)
CallStep(fct, F, H, half_step, full_step, potInit, Pot) ==
  CASE fct = "Do_FT_Step_half" -> Do_FT_Step_half(F, H, half_step)
    [] fct = "Do_FT_Step_full" -> Do_FT_Step_full(F, H, full_step)
    [] fct = "Do_NL_Step"      -> Do_NL_Step(F, H, potInit, Pot)
    [] OTHER                   -> Do_NL_Step_one(F, H)

----------------------------------------------------------------------------
(* State *)

VARIABLES
  m_header,               \* generic_header: [t, dt]
  m_fields,               \* component -> field
  m_half_step,            \* operator table for half a kinetic step
  m_full_step,            \* operator table for a full kinetic step
  m_potenial_initialized, \* set by Init_Potential
  m_Potential,            \* component -> point -> value
  m_custom_fct,           \* "nullptr" or "hook"
  m_sequence,             \* m_params->m_sequence, the descriptor list
  files,                  \* file name -> sequence of frames [header, Psi]
  pc,                     \* position of the control thread
  idx,                    \* position of run_sequence in m_sequence
  seq_counter,            \* run_sequence: int seq_counter
  step_fct,               \* run_sequence: StepFunction step_fct
  Na,                     \* run_sequence: int Na
  Nk,                     \* run_sequence: int Nk
  i,                      \* run_sequence: outer loop variable
  j,                      \* run_sequence: inner loop variable
  oplog,                  \* history: step functions called in this stage
  cad,                    \* history: cadence actions fired inside the loop
  cadEnd,                 \* history: cadence actions fired after the loop
  kicks,                  \* history: calls of Setup_Momentum made by run_sequence
  tStart,                 \* history: m_header.t when the stage started
  call,                   \* history: the last call of a public method
  omp                     \* the team of workers of an omp parallel region

vars == <<m_header, m_fields, m_half_step, m_full_step, m_potenial_initialized,
          m_Potential, m_custom_fct, m_sequence, files, pc, idx, seq_counter,
          step_fct, Na, Nk, i, j, oplog, cad, cadEnd, kicks, tStart, call, omp>>

engine == <<m_header, m_fields, m_half_step, m_full_step,
            m_potenial_initialized, m_Potential, m_custom_fct>>

locals == <<idx, seq_counter, step_fct, Na, Nk, i, j>>

history == <<oplog, cad, cadEnd, kicks, tStart>>

----------------------------------------------------------------------------
(* Sequence descriptors (sequence_item) *)

Desc(name, content, comp, duration, dt, nk, output_freq, compute_pn_freq, custom_freq) ==
  [name |-> name, content |-> content, comp |-> comp, duration |-> duration,
   dt |-> dt, Nk |-> nk, output_freq |-> output_freq,
   compute_pn_freq |-> compute_pn_freq, custom_freq |-> custom_freq]

(* Stage names that the derived class handles in run_custom_sequence *)
CustomNames == {"custom"}

run_custom_sequence(seq) == seq.name \in CustomNames

(* Lists of 1 .. MaxStages descriptors drawn from D *)
ListsOver(D) == UNION {[1 .. n -> D] : n \in 1 .. MaxStages}

(* Stages of the timing study: every sign of dt, every sign of Nk, durations
   that dt does and does not divide, plus one stage of each other kind *)
PropagatingDescs ==
  {Desc("freeprop", <<>>, 0, dur, dt, nk, "none", "none", "none") :
     dur \in {<<-2, 6>>, <<8>>}, dt \in {-2, 2, 4}, nk \in {-1, 0, 1, 2}}

OtherDescs ==
  {Desc(nm, <<>>, 0, <<4>>, 4, 1, "none", "none", "none") :
     nm \in {"half_step", "full_step", "bogus", "custom"}}
  \cup
  {Desc("freeprop_lin", <<>>, 0, <<-4>>, 2, 1, "none", "none", "none")}
  \cup
  {Desc("set_momentum", ct, c, <<>>, 2, 1, "none", "none", "none") :
     ct \in {<<1, 0>>, <<1>>}, c \in {-1, 0, 1, 2}}

Descs == PropagatingDescs \cup OtherDescs

----------------------------------------------------------------------------
(* Files *)

PackedName(s, k) == <<"Seq", s, k>>

(* "%.3f_%d.bin" of Get_t() and k+1: one name per time and component *)
SnapshotName(t, k) == <<"t", t, k>>

Frame(H, f) == [header |-> H, Psi |-> f]

WriteFile(fs, name, content) ==
  [n \in (DOMAIN fs) \cup {name} |-> IF n = name THEN content ELSE fs[n]]

RemoveFiles(fs, names) == [n \in (DOMAIN fs) \ names |-> fs[n]]

(* ofstream(filename, binary): the file is truncated, then header and payload *)
Save_Phi_file(fs, name, H, f) == WriteFile(fs, name, <<Frame(H, f)>>)

(* ofstream(filename, binary | app): header and payload go to the end *)
Append_Phi_file(fs, name, H, f) ==
  WriteFile(fs, name, (IF name \in DOMAIN fs THEN fs[name] ELSE <<>>) \o <<Frame(H, f)>>)

RECURSIVE SaveAll(_, _, _, _)
SaveAll(fs, H, F, k) ==
  IF k = no_int_states THEN fs
  ELSE SaveAll(Save_Phi_file(fs, SnapshotName(H.t, k + 1), H, F[k]), H, F, k + 1)

RECURSIVE AppendAll(_, _, _, _, _)
AppendAll(fs, s, H, F, k) ==
  IF k = no_int_states THEN fs
  ELSE AppendAll(Append_Phi_file(fs, PackedName(s, k + 1), H, F[k]), s, H, F, k + 1)

RemovePacked_Zero(fs, s) == RemoveFiles(fs, {PackedName(s, k) : k \in Comps})

(* for k: sprintf(filename, "Seq_%d_%d.bin", seq_counter, k+1); std::remove(filename) *)
RemovePacked(fs, s) == RemoveFiles(fs, {PackedName(s, k + 1) : k \in Comps})

----------------------------------------------------------------------------
(* Construction: Read_header, Allocate, LoadFiles, Init, the step-function *)
(* map, m_custom_fct, m_potenial_initialized, m_alpha, and last            *)
(* m_header.dt = params->Get_dt()                                          *)

(* The wavefunctions of the initial-condition files *)
LoadFiles ==
  [c \in Comps |->
     IF c = 0
     THEN [re |-> [l \in Pts |-> IF l = 0 THEN 1 ELSE 0],
           im |-> [l \in Pts |-> IF l = 0 THEN 0 ELSE 1], sc |-> 0]
     ELSE [re |-> [l \in Pts |-> IF l = 0 THEN 2 ELSE 1],
           im |-> [l \in Pts |-> 0], sc |-> 0]]

(* dt of the header of the initial-condition file, dt of the configuration *)
FileDts == {2}

ConfigDts == {2, 4}

NoCall ==
  [fn |-> "none", comp |-> 0, outcome |-> "none", before |-> LoadFiles, result |-> <<>>]

(* No parallel region is open *)
NoTeam ==
  [fn |-> "none", comp |-> 0, nthreads |-> 0, owner |-> <<>>, axisOwner |-> <<>>,
   wpc |-> <<>>, single |-> "free", singleBy |-> {}, tmp |-> <<>>, todo |-> {},
   t |-> <<>>, res |-> <<>>, writes |-> {}, resBy |-> <<>>, before |-> LoadFiles]

NoCadence == [output |-> 0, pn |-> 0, custom |-> 0]

(* Packed files left behind by an earlier run *)
StaleFrame == Frame([t |-> -1, dt |-> 2], LoadFiles[0])

StaleFiles ==
  [n \in {PackedName(s, k + 1) : s \in 1 .. MaxStages, k \in Comps} |->
     <<StaleFrame, StaleFrame>>]

NoFiles == [n \in {} |-> <<>>]

Constructor(fileDt, cfgDt, sequence, fs) ==
  /\ m_fields = LoadFiles
  /\ m_half_step = HalfStepTable(fileDt)
  /\ m_full_step = FullStepTable(fileDt)
  /\ m_custom_fct = "nullptr"
  /\ m_potenial_initialized = FALSE
  /\ m_Potential = [c \in Comps |-> <<>>]
  /\ m_header = [t |-> 0, dt |-> cfgDt]
  /\ m_sequence = sequence
  /\ files = fs
  /\ pc = "idle"
  /\ idx = 0
  /\ seq_counter = 0
  /\ step_fct = "nullptr"
  /\ Na = 0
  /\ Nk = 0
  /\ i = 0
  /\ j = 0
  /\ oplog = <<>>
  /\ cad = NoCadence
  /\ cadEnd = NoCadence
  /\ kicks = 0
  /\ tStart = 0
  /\ call = NoCall
  /\ omp = NoTeam

Init ==
  \E fileDt \in FileDts, cfgDt \in ConfigDts, sequence \in ListsOver(Descs) :
    Constructor(fileDt, cfgDt, sequence, NoFiles)

(* CRT_shared::Set_dt *)
Set_dt(H, dt) == [H EXCEPT !.dt = dt]

----------------------------------------------------------------------------
(* run_sequence *)

seq == m_sequence[idx]

(* half_step_fct = m_map_stepfcts.at("half_step"), full_step_fct likewise *)
half_step_fct == MapAt("half_step")

full_step_fct_Half == MapAt("half_step")

full_step_fct == MapAt("full_step")

RECURSIVE MaxDurationFrom(_, _, _)
MaxDurationFrom(duration, n, max_duration) ==
  IF n > Len(duration) THEN max_duration
  ELSE MaxDurationFrom(duration, n + 1,
                       IF duration[n] > max_duration THEN duration[n] ELSE max_duration)

(* double max_duration = 0; for ... if (seq.duration[i] > max_duration) ... *)
MaxDuration(d) == MaxDurationFrom(d.duration, 1, 0)

SubN_Abs(d) == Abs(TruncDiv(MaxDuration(d), d.dt))

(* int subN = int(max_duration / seq.dt) *)
SubN(d) == TruncDiv(MaxDuration(d), d.dt)

ComputeNa_NoNk(d) == SubN(d)

(* int Na = subN / seq.Nk *)
ComputeNa(d) == TruncDiv(SubN(d), d.Nk)

run_sequence_begin ==
  /\ pc = "idle"
  /\ pc' = "seq_loop"
  /\ seq_counter' = 1
  /\ idx' = 1
  /\ step_fct' = "nullptr"
  /\ UNCHANGED <<engine, m_sequence, files, Na, Nk, i, j, history, call, omp>>

(* The descriptor list is exhausted *)
Sequence_done ==
  /\ pc = "seq_loop"
  /\ idx > Len(m_sequence)
  /\ pc' = "done"
  /\ UNCHANGED <<engine, m_sequence, files, locals, history, call, omp>>

Sequence_custom_Counts ==
  /\ pc = "seq_loop"
  /\ idx <= Len(m_sequence)
  /\ run_custom_sequence(seq)
  /\ idx' = idx + 1
  /\ seq_counter' = seq_counter + 1
  /\ UNCHANGED <<engine, m_sequence, files, pc, step_fct, Na, Nk, i, j,
                 history, call, omp>>

(* if ( run_custom_sequence(seq) ) continue; *)
Sequence_custom ==
  /\ pc = "seq_loop"
  /\ idx <= Len(m_sequence)
  /\ run_custom_sequence(seq)
  /\ idx' = idx + 1
  /\ UNCHANGED <<engine, m_sequence, files, pc, seq_counter, step_fct, Na, Nk, i, j,
                 history, call, omp>>

Sequence_set_momentum_Fall ==
  /\ pc = "seq_loop"
  /\ idx <= Len(m_sequence)
  /\ seq.name = "set_momentum"
  /\ Len(seq.content) > dim
  /\ seq.comp <= dim
  /\ seq.comp >= 0
  /\ m_fields' = [m_fields EXCEPT ![seq.comp] =
                    MomentumKick(m_fields[seq.comp], [a \in Axes |-> seq.content[a + 1]])]
  /\ m_header' = [m_header EXCEPT !.dt = seq.dt]
  /\ kicks' = kicks + 1
  /\ idx' = idx + 1
  /\ UNCHANGED <<m_half_step, m_full_step, m_potenial_initialized,
                 m_Potential, m_custom_fct, m_sequence, files, pc, seq_counter,
                 step_fct, Na, Nk, i, j, oplog, cad, cadEnd, tStart, call, omp>>

(* if ( seq.name == "set_momentum" ): the asserts hold, Setup_Momentum returns.
   With dim < no_int_states the assert seq.comp <= dim keeps m_fields[seq.comp]
   inside the array. *)
Sequence_set_momentum ==
  /\ pc = "seq_loop"
  /\ idx <= Len(m_sequence)
  /\ ~run_custom_sequence(seq)
  /\ seq.name = "set_momentum"
  /\ Len(seq.content) > dim
  /\ seq.comp <= dim
  /\ ~CompOutOfBounds(seq.comp)
  /\ LET P == [a \in Axes |-> seq.content[a + 1]]
     IN  m_fields' = [m_fields EXCEPT ![seq.comp] = MomentumKick(m_fields[seq.comp], P)]
  /\ kicks' = kicks + 1
  /\ idx' = idx + 1
  /\ UNCHANGED <<m_header, m_half_step, m_full_step, m_potenial_initialized,
                 m_Potential, m_custom_fct, m_sequence, files, pc, seq_counter,
                 step_fct, Na, Nk, i, j, oplog, cad, cadEnd, tStart, call, omp>>

(* assert( vec.size() > dim ); assert( seq.comp <= dim ); fails: abort() *)
Sequence_set_momentum_assert ==
  /\ pc = "seq_loop"
  /\ idx <= Len(m_sequence)
  /\ ~run_custom_sequence(seq)
  /\ seq.name = "set_momentum"
  /\ ~(Len(seq.content) > dim /\ seq.comp <= dim)
  /\ pc' = "aborted"
  /\ UNCHANGED <<engine, m_sequence, files, locals, history, call, omp>>

(* Setup_Momentum throws std::string, which leaves run_sequence *)
Sequence_set_momentum_throw ==
  /\ pc = "seq_loop"
  /\ idx <= Len(m_sequence)
  /\ ~run_custom_sequence(seq)
  /\ seq.name = "set_momentum"
  /\ Len(seq.content) > dim
  /\ seq.comp <= dim
  /\ CompOutOfBounds(seq.comp)
  /\ kicks' = kicks + 1
  /\ pc' = "thrown"
  /\ UNCHANGED <<engine, m_sequence, files, locals, oplog, cad, cadEnd, tStart, call, omp>>

IsPropagating(d) == ~run_custom_sequence(d) /\ d.name # "set_momentum"

(* int Na = subN / seq.Nk with seq.Nk = 0: the division traps, or (where the
   machine's integer division does not trap) yields 0 *)
DivisionTraps(d) == d.Nk = 0

NaOutcomes(d) == IF d.Nk = 0 THEN {0} ELSE {ComputeNa(d)}

Stage_division_trap ==
  /\ pc = "seq_loop"
  /\ idx <= Len(m_sequence)
  /\ IsPropagating(seq)
  /\ DivisionTraps(seq)
  /\ pc' = "crashed"
  /\ UNCHANGED <<engine, m_sequence, files, locals, history, call, omp>>

(* if ( this->Get_dt() != seq.dt ) this->Set_dt(seq.dt); *)
StageHeader(H, d) == IF H.dt # d.dt THEN Set_dt(H, d.dt) ELSE H

Stage_invalid_name_Skip ==
  /\ pc = "seq_loop"
  /\ idx <= Len(m_sequence)
  /\ ~run_custom_sequence(seq) /\ seq.name # "set_momentum"
  /\ seq.name \notin {"half_step", "full_step", "freeprop", "freeprop_lin"}
  /\ seq.Nk # 0
  /\ m_header' = [m_header EXCEPT !.dt = seq.dt]
  /\ idx' = idx + 1
  /\ UNCHANGED <<m_fields, m_half_step, m_full_step, m_potenial_initialized,
                 m_Potential, m_custom_fct, m_sequence, files, pc, seq_counter,
                 step_fct, Na, Nk, i, j, history, call, omp>>

(* m_map_stepfcts.at(seq.name) throws out_of_range: exit(EXIT_FAILURE) *)
Stage_invalid_name ==
  /\ pc = "seq_loop"
  /\ idx <= Len(m_sequence)
  /\ IsPropagating(seq)
  /\ seq.name \notin MapNames
  /\ m_header' = StageHeader(m_header, seq)
  /\ pc' = "exited"
  /\ UNCHANGED <<m_fields, m_half_step, m_full_step, m_potenial_initialized,
                 m_Potential, m_custom_fct, m_sequence, files, locals, history, call, omp>>

(* Lines 731-770: Na, Nk, Set_dt, the step function, removal of the old packed
   files, and the first test of the outer loop *)
Stage_setup ==
  /\ pc = "seq_loop"
  /\ idx <= Len(m_sequence)
  /\ IsPropagating(seq)
  /\ seq.name \in MapNames
  /\ \E na \in NaOutcomes(seq) :
       /\ Na' = na
       /\ pc' = IF 1 <= na THEN "half_first" ELSE "teardown"
  /\ Nk' = seq.Nk
  /\ m_header' = StageHeader(m_header, seq)
  /\ step_fct' = MapAt(seq.name)
  /\ files' = RemovePacked(files, seq_counter)
  /\ i' = 1
  /\ oplog' = <<>>
  /\ cad' = NoCadence
  /\ cadEnd' = NoCadence
  /\ tStart' = m_header.t
  /\ UNCHANGED <<m_fields, m_half_step, m_full_step, m_potenial_initialized,
                 m_Potential, m_custom_fct, m_sequence, idx, seq_counter, j, kicks, call, omp>>

(* One call through a step-function pointer: the engine after it and the log *)
Apply(fct) ==
  LET r == CallStep(fct, m_fields, m_header, m_half_step, m_full_step,
                    m_potenial_initialized, m_Potential)
  IN  /\ m_fields' = r.fields
      /\ m_header' = r.header
      /\ oplog' = Append(oplog, fct)
      /\ UNCHANGED <<m_half_step, m_full_step, m_potenial_initialized, m_Potential,
                     m_custom_fct, m_sequence, files, idx, seq_counter, step_fct,
                     Na, Nk, i, cad, cadEnd, kicks, tStart, call, omp>>

(* Line 772: the call of half_step_fct, then int j=2 and the test j<=Nk *)
Step_half_first ==
  /\ pc = "half_first"
  /\ Apply(half_step_fct)
  /\ j' = 2
  /\ pc' = IF 2 <= Nk THEN "inner_step" ELSE "last_step"

(* Line 775, inner loop: the call of step_fct *)
Step_inner ==
  /\ pc = "inner_step"
  /\ Apply(step_fct)
  /\ j' = j
  /\ pc' = "inner_full"

(* Line 776, inner loop: the call of full_step_fct, then j++ and the test j<=Nk *)
Step_full ==
  /\ pc = "inner_full"
  /\ Apply(full_step_fct)
  /\ j' = j + 1
  /\ pc' = IF j + 1 <= Nk THEN "inner_step" ELSE "last_step"

(* Line 778: the call of step_fct after the inner loop *)
Step_last ==
  /\ pc = "last_step"
  /\ Apply(step_fct)
  /\ j' = j
  /\ pc' = "half_last"

(* Line 779: the call of half_step_fct that closes the outer iteration *)
Step_half_last ==
  /\ pc = "half_last"
  /\ Apply(half_step_fct)
  /\ j' = j
  /\ pc' = "cadence"

Fires(cond) == IF cond THEN 1 ELSE 0

Cadence_each_Nested ==
  /\ pc = "cadence"
  /\ files' =
       LET saved == IF seq.output_freq = "each"
                    THEN SaveAll(files, m_header, m_fields, 0) ELSE files
       IN  IF seq.output_freq = "packed"
           THEN AppendAll(saved, seq_counter, m_header, m_fields, 0) ELSE saved
  /\ cad' = [output |-> cad.output
                          + Fires(seq.output_freq = "each")
                          + Fires(seq.output_freq = "packed"),
             pn     |-> cad.pn + Fires(seq.compute_pn_freq = "each"
                                       /\ seq.output_freq \in {"each", "packed"}),
             custom |-> cad.custom
                          + Fires(seq.custom_freq = "each" /\ m_custom_fct # "nullptr")]
  /\ i' = i + 1
  /\ pc' = IF i + 1 <= Na THEN "half_first" ELSE "teardown"
  /\ UNCHANGED <<engine, m_sequence, idx, seq_counter, step_fct, Na, Nk, j,
                 oplog, cadEnd, kicks, tStart, call, omp>>

(* Lines 783-810, then i++ and the test of the outer loop *)
Cadence_each ==
  /\ pc = "cadence"
  /\ files' =
       LET saved == IF seq.output_freq = "each"
                    THEN SaveAll(files, m_header, m_fields, 0) ELSE files
       IN  IF seq.output_freq = "packed"
           THEN AppendAll(saved, seq_counter, m_header, m_fields, 0) ELSE saved
  /\ cad' = [output |-> cad.output
                          + Fires(seq.output_freq = "each")
                          + Fires(seq.output_freq = "packed"),
             pn     |-> cad.pn + Fires(seq.compute_pn_freq = "each"),
             custom |-> cad.custom
                          + Fires(seq.custom_freq = "each" /\ m_custom_fct # "nullptr")]
  /\ i' = i + 1
  /\ pc' = IF i + 1 <= Na THEN "half_first" ELSE "teardown"
  /\ UNCHANGED <<engine, m_sequence, idx, seq_counter, step_fct, Na, Nk, j,
                 oplog, cadEnd, kicks, tStart, call, omp>>

(* Lines 813-833: the final-only cadences, then seq_counter++ *)
Stage_teardown ==
  /\ pc = "teardown"
  /\ files' = IF seq.output_freq = "last"
              THEN SaveAll(files, m_header, m_fields, 0) ELSE files
  /\ cadEnd' = [output |-> cadEnd.output + Fires(seq.output_freq = "last"),
                pn     |-> cadEnd.pn + Fires(seq.compute_pn_freq = "last"),
                custom |-> cadEnd.custom
                             + Fires(seq.custom_freq = "last" /\ m_custom_fct # "nullptr")]
  /\ seq_counter' = seq_counter + 1
  /\ idx' = idx + 1
  /\ pc' = "seq_loop"
  /\ UNCHANGED <<engine, m_sequence, step_fct, Na, Nk, i, j, oplog, cad, kicks,
                 tStart, call, omp>>

Next ==
  \/ run_sequence_begin
  \/ Sequence_done
  \/ Sequence_custom
  \/ Sequence_set_momentum
  \/ Sequence_set_momentum_assert
  \/ Sequence_set_momentum_throw
  \/ Stage_division_trap
  \/ Stage_invalid_name
  \/ Stage_setup
  \/ Step_half_first
  \/ Step_inner
  \/ Step_full
  \/ Step_last
  \/ Step_half_last
  \/ Cadence_each
  \/ Stage_teardown

Spec == Init /\ [][Next]_vars

----------------------------------------------------------------------------
(* Notions shared by the properties *)

LoopPcs == {"half_first", "inner_step", "inner_full", "last_step", "half_last", "cadence"}

InStage == pc \in LoopPcs \cup {"teardown"}

(* Outer iterations that have run to the end of their cadence block *)
IterationsDone == i - 1

RECURSIVE Repeat(_, _)
Repeat(sq, n) == IF n <= 0 THEN <<>> ELSE sq \o Repeat(sq, n - 1)

IsPrefix(a, b) == Len(a) <= Len(b) /\ SubSeq(b, 1, Len(a)) = a

(* The operators the constructor registers under the four stage names *)
StageOperator(name) ==
  CASE name = "half_step"    -> "Do_FT_Step_half"
    [] name = "full_step"    -> "Do_FT_Step_full"
    [] name = "freeprop"     -> "Do_NL_Step"
    [] name = "freeprop_lin" -> "Do_NL_Step_one"

(* Half, (stage operator, Full) x (Nk-1), stage operator, Half *)
StrangOrder(d) ==
  <<"Do_FT_Step_half">>
    \o Repeat(<<StageOperator(d.name), "Do_FT_Step_full">>, d.Nk - 1)
    \o <<StageOperator(d.name), "Do_FT_Step_half">>

----------------------------------------------------------------------------
(* C1: in every propagating stage the step functions called so far are the *)
(* Strang order Half, (stage operator, Full) x (Nk-1), stage operator,     *)
(* Half, once per outer iteration and nothing else: the log of the stage   *)
(* is always a prefix of that order repeated, it is exactly i repetitions  *)
(* when the i-th iteration reaches its cadence block, and for Nk = 1 one   *)
(* repetition is Half, stage operator, Half.                               *)
C1_StrangOrder ==
  InStage =>
    /\ IsPrefix(oplog, Repeat(StrangOrder(seq), i))
    /\ Len(oplog) >= Len(StrangOrder(seq)) * IterationsDone
    /\ pc = "cadence" => oplog = Repeat(StrangOrder(seq), i)
    /\ pc = "teardown" => oplog = Repeat(StrangOrder(seq), IterationsDone)
    /\ (seq.Nk = 1 /\ pc = "cadence") =>
         oplog = Repeat(<<"Do_FT_Step_half", StageOperator(seq.name), "Do_FT_Step_half">>, i)

C1_Witness ==
  /\ pc = "cadence"
  /\ i = 2
  /\ seq.Nk = 2
  /\ oplog = <<"Do_FT_Step_half", "Do_NL_Step", "Do_FT_Step_full", "Do_NL_Step",
               "Do_FT_Step_half",
               "Do_FT_Step_half", "Do_NL_Step", "Do_FT_Step_full", "Do_NL_Step",
               "Do_FT_Step_half">>

----------------------------------------------------------------------------
(* Runs in which every stage uses the dt of the configuration: Get_dt()    *)
(* equals seq.dt in every stage, so run_sequence never calls Set_dt and    *)
(* the header dt is the one the constructor assigned                       *)
InitConfigured ==
  \E fileDt \in FileDts, cfgDt \in ConfigDts :
    \E sequence \in ListsOver({[d EXCEPT !.dt = cfgDt] : d \in Descs}) :
      Constructor(fileDt, cfgDt, sequence, NoFiles)

SpecConfigured == InitConfigured /\ [][Next]_vars

----------------------------------------------------------------------------
(* C2: whenever Do_FT_Step_half or Do_FT_Step_full is about to be applied, *)
(* m_half_step and m_full_step are the tables Init() computes from the     *)
(* current m_header.dt.                                                    *)
KineticStepNext ==
  \/ pc \in {"half_first", "inner_full", "half_last"}
  \/ pc \in {"inner_step", "last_step"} /\ step_fct \in {"Do_FT_Step_half", "Do_FT_Step_full"}

C2_TablesFresh ==
  KineticStepNext =>
    /\ m_half_step = HalfStepTable(m_header.dt)
    /\ m_full_step = FullStepTable(m_header.dt)

----------------------------------------------------------------------------
(* C3 as stated: a propagating stage with dt > 0 and Nk >= 1 executes      *)
(* floor(max duration / dt) outer iterations.                              *)
MaxOf(S) == CHOOSE m \in S : \A x \in S : x <= m

DurationSet(d) == {d.duration[n] : n \in 1 .. Len(d.duration)}

C3_Original ==
  (pc = "teardown" /\ seq.dt > 0 /\ seq.Nk >= 1 /\ DurationSet(seq) # {}) =>
    IterationsDone = MaxOf(DurationSet(seq)) \div seq.dt

(* C3 as amended: a propagating stage with dt > 0 and Nk >= 1 executes     *)
(* floor(floor(D / dt) / Nk) outer iterations, D being the largest of the  *)
(* durations and 0, and each outer iteration calls the stage operator Nk   *)
(* times.                                                                  *)
C3_OuterIterations ==
  (pc = "teardown" /\ seq.dt > 0 /\ seq.Nk >= 1) =>
    /\ IterationsDone = (MaxOf(DurationSet(seq) \cup {0}) \div seq.dt) \div seq.Nk
    /\ Len(oplog) = IterationsDone * (2 * seq.Nk + 1)

C3_Witness ==
  /\ pc = "teardown"
  /\ seq.dt = 2
  /\ seq.Nk = 2
  /\ seq.duration = <<-2, 6>>
  /\ IterationsDone = 1

----------------------------------------------------------------------------
(* C8: a stage whose name is none of the four registered names (and is     *)
(* neither a custom stage nor set_momentum) ends the run: the step to it   *)
(* leads to exit, that step applies no step operator, writes no file and   *)
(* fires no cadence, and nothing happens after exit.                       *)
RegisteredNames == {"half_step", "full_step", "freeprop", "freeprop_lin"}

AtDescriptor == pc = "seq_loop" /\ idx <= Len(m_sequence)

Unresolvable(d) ==
  /\ d.name \notin RegisteredNames
  /\ d.name # "set_momentum"
  /\ ~run_custom_sequence(d)

C8_InvalidNameIsFatal ==
  [][/\ pc # "exited"
     /\ (AtDescriptor /\ Unresolvable(seq) /\ seq.Nk # 0) =>
          /\ pc' = "exited"
          /\ m_fields' = m_fields
          /\ m_header'.t = m_header.t
          /\ oplog' = oplog
          /\ files' = files
          /\ cad' = cad /\ cadEnd' = cadEnd
          /\ idx' = idx /\ seq_counter' = seq_counter
     /\ pc' = "exited" => (AtDescriptor /\ Unresolvable(seq))]_vars

C8_Witness ==
  /\ pc = "exited"
  /\ idx = 1
  /\ Len(m_sequence) = 2
  /\ m_sequence[1].name = "bogus"
  /\ oplog = <<>>

----------------------------------------------------------------------------
(* C9: a set_momentum stage applies no step operator, fires no cadence,    *)
(* writes no file and leaves t, dt and the stage counter unchanged; when   *)
(* its descriptor is well formed (more than dim numbers, component in      *)
(* range) it calls Setup_Momentum exactly once, on the selected component  *)
(* only, and run_sequence moves to the next descriptor.                    *)
WellFormedMomentum(d) == Len(d.content) > dim /\ d.comp \in Comps

----------------------------------------------------------------------------
----------------------------------------------------------------------------
(* Output study: every combination of the three cadences, stale packed     *)
(* files of an earlier run, and a custom function set before the run       *)

(* void Set_custom_fct( StepFunction &fct ) { m_custom_fct=fct; } *)
Set_custom_fct ==
  /\ pc = "idle"
  /\ \E fct \in {"hook", "nullptr"} :
       /\ fct # m_custom_fct
       /\ m_custom_fct' = fct
  /\ UNCHANGED <<m_header, m_fields, m_half_step, m_full_step, m_potenial_initialized,
                 m_Potential, m_sequence, files, pc, locals, history, call, omp>>

CadenceDescs ==
  {Desc("freeprop", <<>>, 0, <<4>>, 2, 1, of, pf, cf) :
     of \in {"none", "each", "last", "packed"},
     pf \in {"none", "each", "last"},
     cf \in {"none", "each", "last"}}

LeadDescs ==
  {Desc("full_step", <<>>, 0, <<8>>, 2, 2, "packed", "each", "each"),
   Desc("freeprop_lin", <<>>, 0, <<2>>, 4, 1, "packed", "last", "last"),
   Desc("half_step", <<>>, 0, <<6>>, -2, -1, "packed", "none", "none"),
   Desc("freeprop", <<>>, 0, <<4>>, 2, 0, "last", "each", "none"),
   Desc("bogus", <<>>, 0, <<4>>, 2, 1, "packed", "each", "each"),
   Desc("custom", <<>>, 0, <<4>>, 2, 1, "packed", "each", "each"),
   Desc("set_momentum", <<1, 0>>, 0, <<>>, 2, 1, "packed", "each", "each"),
   Desc("set_momentum", <<1, 0>>, -1, <<>>, 2, 1, "packed", "each", "each"),
   Desc("set_momentum", <<1>>, 0, <<>>, 2, 1, "packed", "each", "each")}

(* Lists whose last stage is any of CadenceDescs or LeadDescs and whose    *)
(* earlier stages are LeadDescs                                            *)
OutputLists ==
  UNION {{ld \o <<d>> : ld \in [1 .. (n - 1) -> LeadDescs], d \in CadenceDescs \cup LeadDescs} :
           n \in 1 .. MaxStages}

InitOutput ==
  \E fileDt \in FileDts, sequence \in OutputLists, fs \in {NoFiles, StaleFiles} :
    Constructor(fileDt, fileDt, sequence, fs)

NextOutput == Next \/ Set_custom_fct

SpecOutput == InitOutput /\ [][NextOutput]_vars

----------------------------------------------------------------------------
(* C5: in a propagating stage the packed file Seq_<stage>_<component>.bin  *)
(* holds only frames of this stage: it is absent until the stage's first   *)
(* append (also when an earlier run left it behind, and in a stage that    *)
(* does not use the packed cadence), it then holds one frame per finished  *)
(* outer iteration, in the order of their times, and when the loop of a    *)
(* packed stage has ended it holds exactly Na frames (none for Na <= 0),   *)
(* the last one being the current header and field.                        *)
FileFrames(name) == IF name \in DOMAIN files THEN files[name] ELSE <<>>

(* Time by which one call of the stage operator advances t *)
StageOperatorTime(d) ==
  CASE d.name = "half_step" -> d.dt \div 2
    [] d.name = "full_step" -> d.dt
    [] OTHER                -> 0

(* Time by which one outer iteration advances t: two half steps, Nk-1 full
   steps and the calls of the stage operator *)
IterationTime(d) ==
  LET n == IF d.Nk >= 1 THEN d.Nk ELSE 1
  IN  n * d.dt + n * StageOperatorTime(d)

C5_PackedFile ==
  InStage =>
    \A k \in Comps :
      LET name == PackedName(seq_counter, k + 1)
          fr   == FileFrames(name)
      IN  /\ (seq.output_freq # "packed" \/ IterationsDone = 0) => name \notin DOMAIN files
          /\ seq.output_freq = "packed" =>
               /\ Len(fr) = IterationsDone
               /\ \A n \in 1 .. Len(fr) :
                    /\ fr[n].header.t = tStart + n * IterationTime(seq)
                    /\ fr[n].header.dt = seq.dt
               /\ pc = "teardown" =>
                    /\ Len(fr) = (IF Na > 0 THEN Na ELSE 0)
                    /\ Len(fr) > 0 => fr[Len(fr)] = Frame(m_header, m_fields[k])

C5_Witness ==
  /\ pc = "teardown"
  /\ idx = 2
  /\ seq_counter = 2
  /\ seq.output_freq = "packed"
  /\ Na = 2
  /\ m_sequence[1].output_freq = "packed"
  /\ Len(FileFrames(PackedName(1, 1))) = 2
  /\ Len(FileFrames(PackedName(2, 2))) = 2
  /\ FileFrames(PackedName(2, 2))[1] # StaleFrame

----------------------------------------------------------------------------
(* C7 as stated: each of the three cadences fires after every outer        *)
(* iteration and not after the loop when set to every-substep, once after  *)
(* the loop and never inside it when set to final-only, and not at all     *)
(* when set to never, whatever the other two are set to.                   *)
EverySubstep(freq) == freq \in {"each", "packed"}

LoopFirings(d, n, hook) ==
  [output |-> IF EverySubstep(d.output_freq) THEN n ELSE 0,
   pn     |-> IF d.compute_pn_freq = "each" THEN n ELSE 0,
   custom |-> IF d.custom_freq = "each" /\ hook THEN n ELSE 0]

FinalFirings(d, hook) ==
  [output |-> IF d.output_freq = "last" THEN 1 ELSE 0,
   pn     |-> IF d.compute_pn_freq = "last" THEN 1 ELSE 0,
   custom |-> IF d.custom_freq = "last" /\ hook THEN 1 ELSE 0]

C7_Original ==
  /\ [](InStage => (cad = LoopFirings(seq, IterationsDone, TRUE) /\ cadEnd = NoCadence))
  /\ [][pc = "teardown" =>
          (cad' = cad /\ cadEnd' = FinalFirings(seq, TRUE) /\ pc' = "seq_loop")]_vars
  /\ [][pc = "cadence" => cad' = LoopFirings(seq, IterationsDone + 1, TRUE)]_vars

(* C7 as amended: the same, except that the custom-hook cadence fires only *)
(* when a custom function has been set (m_custom_fct is not nullptr); with *)
(* none set it never fires.                                                *)
C7_Cadences ==
  /\ [](InStage => (cad = LoopFirings(seq, IterationsDone, m_custom_fct # "nullptr")
                    /\ cadEnd = NoCadence))
  /\ [][pc = "teardown" =>
          (/\ cad' = cad
           /\ cadEnd' = FinalFirings(seq, m_custom_fct # "nullptr")
           /\ pc' = "seq_loop")]_vars
  /\ [][pc = "cadence" =>
          cad' = LoopFirings(seq, IterationsDone + 1, m_custom_fct # "nullptr")]_vars

C7_Witness ==
  /\ pc = "seq_loop"
  /\ idx = 2
  /\ Len(m_sequence) = 1
  /\ m_sequence[1].output_freq = "each"
  /\ m_sequence[1].compute_pn_freq = "last"
  /\ m_sequence[1].custom_freq = "each"
  /\ m_custom_fct = "hook"
  /\ cad = [output |-> 2, pn |-> 0, custom |-> 2]
  /\ cadEnd = [output |-> 0, pn |-> 1, custom |-> 0]

----------------------------------------------------------------------------
(* Public methods called by the owner of the engine, outside run_sequence  *)

(* Component arguments tried: below, inside, at the end of and beyond      *)
(* [0, no_int_states)                                                      *)
CompArgs == (0 - 1) .. (no_int_states + 1)

RECURSIVE SumTo(_, _)
SumTo(vals, l) == IF l < 0 THEN 0 ELSE vals[l] + SumTo(vals, l - 1)

(* m_ar * sum over l of |Psi[l]|^2, as numerator over 4^sc *)
ParticleNumber(f) ==
  [num |-> m_ar * SumTo([l \in Pts |-> Density(f, l)], m_no_of_pts - 1), sc |-> f.sc]

(* m_ar * sum over l of x(l)[axis] * |Psi[l]|^2 per axis *)
PositionExpval(f) ==
  [num |-> [a \in Axes |->
              m_ar * SumTo([l \in Pts |-> Get_x(l)[a] * Density(f, l)], m_no_of_pts - 1)],
   sc |-> f.sc]

(* m_ar_k * sum over l of k(l)[axis] * |Psi[l]|^2 per axis, Psi in momentum space *)
MomentumExpval(fk) ==
  [num |-> [a \in Axes |->
              m_ar_k * SumTo([l \in Pts |-> Get_k(l)[a] * Density(fk, l)], m_no_of_pts - 1)],
   sc |-> fk.sc]

Expval_Momentum_NoRestore(f) == ft(f, -1)

(* Expval_Momentum on the selected field: ft(-1), the reduction, which only
   reads Psi, then ft(1) *)
Expval_Momentum_field(f) == ft(ft(f, -1), 1)

Called(fn, comp, outcome, result) ==
  call' = [fn |-> fn, comp |-> comp, outcome |-> outcome, before |-> m_fields,
           result |-> result]

(* The index test throws std::string: nothing has been touched *)
Throws(fn, comp) ==
  /\ CompOutOfBounds(comp)
  /\ Called(fn, comp, "out_of_range", <<>>)
  /\ UNCHANGED <<engine, m_sequence, files, pc, locals, history, omp>>

(* comp == no_int_states passes the index test; m_fields[comp] is then read
   one element past the end of the std::array, which is undefined: the
   process may die on the wild pointer *)
WildCrash(fn, comp) ==
  /\ ~CompOutOfBounds(comp)
  /\ comp \notin Comps
  /\ Called(fn, comp, "crashed", <<>>)
  /\ pc' = "crashed"
  /\ UNCHANGED <<engine, m_sequence, files, locals, history, omp>>

(* ... or the wild pointer is readable and a read-only method returns a
   value computed from whatever memory it names *)
WildRead(fn, comp) ==
  /\ ~CompOutOfBounds(comp)
  /\ comp \notin Comps
  /\ Called(fn, comp, "returned", <<>>)
  /\ UNCHANGED <<engine, m_sequence, files, pc, locals, history, omp>>

Get_Particle_Number ==
  /\ pc = "idle"
  /\ \E comp \in CompArgs :
       \/ Throws("Get_Particle_Number", comp)
       \/ /\ comp \in Comps
          /\ Called("Get_Particle_Number", comp, "returned", ParticleNumber(m_fields[comp]))
          /\ UNCHANGED <<engine, m_sequence, files, pc, locals, history, omp>>
       \/ WildCrash("Get_Particle_Number", comp)
       \/ WildRead("Get_Particle_Number", comp)

Expval_Position ==
  /\ pc = "idle"
  /\ \E comp \in CompArgs :
       \/ Throws("Expval_Position", comp)
       \/ /\ comp \in Comps
          /\ Called("Expval_Position", comp, "returned", PositionExpval(m_fields[comp]))
          /\ UNCHANGED <<engine, m_sequence, files, pc, locals, history, omp>>
       \/ WildCrash("Expval_Position", comp)
       \/ WildRead("Expval_Position", comp)

Expval_Momentum ==
  /\ pc = "idle"
  /\ \E comp \in CompArgs :
       \/ Throws("Expval_Momentum", comp)
       \/ /\ comp \in Comps
          /\ Called("Expval_Momentum", comp, "returned",
                    MomentumExpval(ft(m_fields[comp], -1)))
          /\ m_fields' = [m_fields EXCEPT ![comp] = Expval_Momentum_field(m_fields[comp])]
          /\ UNCHANGED <<m_header, m_half_step, m_full_step, m_potenial_initialized,
                         m_Potential, m_custom_fct, m_sequence, files, pc, locals, history, omp>>
       \/ WildCrash("Expval_Momentum", comp)
       \/ WildRead("Expval_Momentum", comp)

(* Setup_Momentum writes through m_fields[comp]: with comp == no_int_states
   the write goes through the wild pointer and may land in any field *)
Setup_Momentum ==
  /\ pc = "idle"
  /\ \E comp \in CompArgs, px \in {[a \in Axes |-> 1]} :
       \/ Throws("Setup_Momentum", comp)
       \/ /\ comp \in Comps
          /\ Called("Setup_Momentum", comp, "returned", <<>>)
          /\ m_fields' = [m_fields EXCEPT ![comp] = MomentumKick(m_fields[comp], px)]
          /\ UNCHANGED <<m_header, m_half_step, m_full_step, m_potenial_initialized,
                         m_Potential, m_custom_fct, m_sequence, files, pc, locals, history, omp>>
       \/ WildCrash("Setup_Momentum", comp)
       \/ /\ ~CompOutOfBounds(comp)
          /\ comp \notin Comps
          /\ Called("Setup_Momentum", comp, "returned", <<>>)
          /\ \E victim \in Comps :
               m_fields' = [m_fields EXCEPT ![victim] = MomentumKick(m_fields[victim], px)]
          /\ UNCHANGED <<m_header, m_half_step, m_full_step, m_potenial_initialized,
                         m_Potential, m_custom_fct, m_sequence, files, pc, locals, history, omp>>

InitMethods ==
  \E fileDt \in FileDts, cfgDt \in ConfigDts :
    Constructor(fileDt, cfgDt, <<>>, NoFiles)

NextMethods ==
  \/ Get_Particle_Number
  \/ Expval_Position
  \/ Expval_Momentum
  \/ Setup_Momentum

SpecMethods == InitMethods /\ [][NextMethods]_vars

----------------------------------------------------------------------------
(* C4: Get_Particle_Number, Expval_Position, Expval_Momentum and           *)
(* Setup_Momentum called with a component index outside                    *)
(* [0, no_int_states) fail with the out-of-range error and leave every     *)
(* field as it was.                                                        *)
IndexedMethods ==
  {"Get_Particle_Number", "Expval_Position", "Expval_Momentum", "Setup_Momentum"}

C4_OutOfRangeRejected ==
  (call.fn \in IndexedMethods /\ call.comp \notin Comps) =>
    /\ call.outcome = "out_of_range"
    /\ m_fields = call.before

----------------------------------------------------------------------------
(* C6: a call of Expval_Momentum with a component in range returns with    *)
(* every field, the selected one included, holding the position-space      *)
(* values it had before the call.                                          *)
C6_TransformAndRestore ==
  (call.fn = "Expval_Momentum" /\ call.comp \in Comps) =>
    /\ call.outcome = "returned"
    /\ m_fields = call.before
    /\ call.result = MomentumExpval(ft_forward(call.before[call.comp]))

C6_Witness ==
  /\ call.fn = "Expval_Momentum"
  /\ call.comp = 1
  /\ call.outcome = "returned"
  /\ m_fields[1] # LoadFiles[1]
  /\ m_fields = call.before

----------------------------------------------------------------------------
(* The omp parallel region of Expval_Position and Expval_Momentum, one     *)
(* step of one worker at a time.  omp.wpc is the position of each worker:  *)
(*   "single"   before the omp single construct                            *)
(*   "zero"     inside it, tmp allocated and not yet zeroed                *)
(*   "barrier1" the implicit barrier that ends omp single                  *)
(*   "for1"     the first omp for, accumulation into tmp                   *)
(*   "barrier2" the implicit barrier that ends the first omp for           *)
(*   "for2"     the second omp for, the sum of tmp into res                *)
(*   "barrier3" the implicit barriers that end the second omp for and the  *)
(*              parallel region                                            *)

(* Bound of the model: the largest team, omp_get_num_threads() *)
MaxThreads == 2

(* What new double[] may hold before it is assigned *)
Indeterminate == {0, 7}

Workers == 0 .. (omp.nthreads - 1)

Slots == 0 .. (dim * omp.nthreads - 1)

PcRank(p) ==
  CASE p = "single" -> 0 [] p = "zero" -> 1 [] p = "barrier1" -> 2 [] p = "for1" -> 3
    [] p = "barrier2" -> 4 [] p = "for2" -> 5 [] OTHER -> 6

Barrier_nowait(b) == TRUE

(* A barrier lets a worker through once every worker of the team has       *)
(* reached it                                                              *)
Barrier(b) == \A v \in Workers : PcRank(omp.wpc[v]) >= PcRank(b)

(* x = Get_x(l) or k = Get_k(l), by the method that opened the region *)
Coordinate(fn, l) == IF fn = "Expval_Position" THEN Get_x(l) ELSE Get_k(l)

(* The schedule of an omp for is the implementation's: any assignment of   *)
(* the iterations to the workers of the team                               *)
Fork(fn, comp, F) ==
  \E n \in 1 .. MaxThreads :
    \E owner \in [Pts -> 0 .. (n - 1)], axisOwner \in [Axes -> 0 .. (n - 1)] :
      /\ omp' = [fn |-> fn, comp |-> comp, nthreads |-> n, owner |-> owner,
                 axisOwner |-> axisOwner, wpc |-> [w \in 0 .. (n - 1) |-> "single"],
                 single |-> "free", singleBy |-> {}, tmp |-> <<>>, todo |-> Pts,
                 t |-> [a \in Axes |-> 0], res |-> [a \in Axes |-> 0],
                 writes |-> {}, resBy |-> [a \in Axes |-> {}], before |-> m_fields]
      /\ m_fields' = F
      /\ pc' = "parallel"

Reject(fn) ==
  \E comp \in CompArgs :
    \/ Throws(fn, comp)
    \/ WildCrash(fn, comp)
    \/ WildRead(fn, comp)

(* Expval_Position up to the parallel region: the index test, res = {} *)
Expval_Position_fork ==
  /\ pc = "idle"
  /\ \/ Reject("Expval_Position")
     \/ /\ \E comp \in Comps : Fork("Expval_Position", comp, m_fields)
        /\ UNCHANGED <<m_header, m_half_step, m_full_step, m_potenial_initialized,
                       m_Potential, m_custom_fct, m_sequence, files, locals, history,
                       call>>

(* Expval_Momentum up to the parallel region: the index test, res = {},   *)
(* ft(-1) on the selected field                                            *)
Expval_Momentum_fork ==
  /\ pc = "idle"
  /\ \/ Reject("Expval_Momentum")
     \/ /\ \E comp \in Comps :
             Fork("Expval_Momentum", comp,
                  [m_fields EXCEPT ![comp] = ft(m_fields[comp], -1)])
        /\ UNCHANGED <<m_header, m_half_step, m_full_step, m_potenial_initialized,
                       m_Potential, m_custom_fct, m_sequence, files, locals, history,
                       call>>

TeamStep == UNCHANGED <<engine, m_sequence, files, pc, locals, history, call>>

(* omp single: the first worker to arrive allocates tmp *)
Single_alloc ==
  \E w \in Workers :
    /\ pc = "parallel"
    /\ omp.wpc[w] = "single"
    /\ omp.single = "free"
    /\ \E g \in Indeterminate :
         omp' = [omp EXCEPT !.single = "taken", !.singleBy = @ \cup {w},
                            !.tmp = [s \in Slots |-> g], !.wpc[w] = "zero"]
    /\ TeamStep

(* ... and zeroes it *)
Single_zero ==
  \E w \in Workers :
    /\ pc = "parallel"
    /\ omp.wpc[w] = "zero"
    /\ omp' = [omp EXCEPT !.single = "done", !.tmp = [s \in Slots |-> 0],
                          !.wpc[w] = "barrier1"]
    /\ TeamStep

(* The other workers skip the block and wait at its end *)
Single_skip ==
  \E w \in Workers :
    /\ pc = "parallel"
    /\ omp.wpc[w] = "single"
    /\ omp.single # "free"
    /\ omp' = [omp EXCEPT !.wpc[w] = "barrier1"]
    /\ TeamStep

Barrier_pass ==
  \E w \in Workers :
    /\ pc = "parallel"
    /\ \E b \in {"barrier1", "barrier2"} :
         /\ omp.wpc[w] = b
         /\ Barrier(b)
         /\ omp' = [omp EXCEPT !.wpc[w] = IF b = "barrier1" THEN "for1" ELSE "for2"]
    /\ TeamStep

(* One iteration l of the first omp for, by the worker it is scheduled on: *)
(* tmp[ithread*dim+i] += x[i]*den                                          *)
Accumulate ==
  \E w \in Workers :
    /\ pc = "parallel"
    /\ omp.wpc[w] = "for1"
    /\ \E l \in omp.todo :
         /\ omp.owner[l] = w
         /\ LET den == Density(m_fields[omp.comp], l)
                x == Coordinate(omp.fn, l)
            IN  omp' = [omp EXCEPT
                          !.tmp = [s \in DOMAIN omp.tmp |->
                                     IF s \in {w * dim + a : a \in Axes}
                                     THEN omp.tmp[s] + x[s - w * dim] * den
                                     ELSE omp.tmp[s]],
                          !.writes = @ \cup {<<w, w * dim + a>> : a \in Axes},
                          !.todo = @ \ {l}]
    /\ TeamStep

(* The worker has run all of its iterations *)
Accumulate_done ==
  \E w \in Workers :
    /\ pc = "parallel"
    /\ omp.wpc[w] = "for1"
    /\ \A l \in omp.todo : omp.owner[l] # w
    /\ omp' = [omp EXCEPT !.wpc[w] = "barrier2"]
    /\ TeamStep

(* res[i] += tmp[dim*t + i] *)
Combine_read(o, a) ==
  IF dim * o.t[a] + a \in DOMAIN o.tmp THEN o.tmp[dim * o.t[a] + a] ELSE 0

(* One pass of the inner loop of the second omp for, by the worker that    *)
(* axis i is scheduled on                                                  *)
Combine ==
  \E w \in Workers :
    /\ pc = "parallel"
    /\ omp.wpc[w] = "for2"
    /\ \E a \in Axes :
         /\ omp.axisOwner[a] = w
         /\ omp.t[a] < omp.nthreads
         /\ omp' = [omp EXCEPT !.res[a] = @ + Combine_read(omp, a),
                               !.resBy[a] = @ \cup {w},
                               !.t[a] = @ + 1]
    /\ TeamStep

Combine_done ==
  \E w \in Workers :
    /\ pc = "parallel"
    /\ omp.wpc[w] = "for2"
    /\ \A a \in Axes : omp.axisOwner[a] = w => omp.t[a] = omp.nthreads
    /\ omp' = [omp EXCEPT !.wpc[w] = "barrier3"]
    /\ TeamStep

(* After the region: delete [] tmp, ft(1) in Expval_Momentum, and          *)
(* retval[i] = m_ar*res[i] or m_ar_k*res[i]                                *)
Expval_join ==
  /\ pc = "parallel"
  /\ Barrier("barrier3")
  /\ call' = [fn |-> omp.fn, comp |-> omp.comp, outcome |-> "returned",
              before |-> omp.before,
              result |-> [num |-> [a \in Axes |->
                                     (IF omp.fn = "Expval_Position" THEN m_ar ELSE m_ar_k)
                                       * omp.res[a]],
                          sc |-> m_fields[omp.comp].sc]]
  /\ m_fields' = IF omp.fn = "Expval_Momentum"
                 THEN [m_fields EXCEPT ![omp.comp] = ft(m_fields[omp.comp], 1)]
                 ELSE m_fields
  /\ pc' = "idle"
  /\ omp' = NoTeam
  /\ UNCHANGED <<m_header, m_half_step, m_full_step, m_potenial_initialized,
                 m_Potential, m_custom_fct, m_sequence, files, locals, history>>

NextWorkers ==
  \/ Expval_Position_fork
  \/ Expval_Momentum_fork
  \/ Single_alloc
  \/ Single_zero
  \/ Single_skip
  \/ Barrier_pass
  \/ Accumulate
  \/ Accumulate_done
  \/ Combine
  \/ Combine_done
  \/ Expval_join

SpecWorkers == InitMethods /\ [][NextWorkers]_vars

----------------------------------------------------------------------------
(* C11: in the parallel region of Expval_Position and Expval_Momentum,     *)
(* whatever the interleaving of the workers and the schedule of the loops: *)
(* one worker alone allocates and zeroes tmp, and it has finished before   *)
(* any worker is in the accumulation loop; a worker adds only to its own   *)
(* slots of tmp; no slot is read by the combine loop before every worker   *)
(* has left the accumulation loop; each res[i] is written by one worker;   *)
(* and at the end of the region res[i] is the sum over all grid points of  *)
(* coordinate[i] times density, which the method returns scaled by m_ar or *)
(* m_ar_k.                                                                 *)
OwnSlots(w) == {w * dim + a : a \in Axes}

ReductionSum(fn, f) ==
  [a \in Axes |->
     SumTo([l \in Pts |-> Coordinate(fn, l)[a] * Density(f, l)], m_no_of_pts - 1)]

C11_TwoPhaseReduction ==
  /\ pc = "parallel" =>
       /\ Cardinality(omp.singleBy) <= 1
       /\ (omp.single = "done" /\ omp.writes = {}) => \A s \in Slots : omp.tmp[s] = 0
       /\ \A w \in Workers :
            PcRank(omp.wpc[w]) >= PcRank("for1") =>
              (omp.single = "done" /\ Cardinality(omp.singleBy) = 1)
       /\ omp.writes # {} => omp.single = "done"
       /\ \A wr \in omp.writes : wr[2] \in OwnSlots(wr[1])
       /\ \A a \in Axes :
            omp.t[a] > 0 =>
              \A w \in Workers : PcRank(omp.wpc[w]) >= PcRank("barrier2")
       /\ \A a \in Axes : Cardinality(omp.resBy[a]) <= 1
       /\ Barrier("barrier3") =>
            omp.res = ReductionSum(omp.fn, m_fields[omp.comp])
  /\ (call.fn = "Expval_Position" /\ call.comp \in Comps) =>
       /\ call.outcome = "returned"
       /\ call.result = PositionExpval(call.before[call.comp])
  /\ (call.fn = "Expval_Momentum" /\ call.comp \in Comps) =>
       /\ call.outcome = "returned"
       /\ call.result = MomentumExpval(ft_forward(call.before[call.comp]))

C11_Witness ==
  /\ pc = "parallel"
  /\ omp.fn = "Expval_Momentum"
  /\ omp.comp = 1
  /\ omp.nthreads = 2
  /\ omp.owner[0] # omp.owner[1]
  /\ omp.singleBy # {omp.axisOwner[0]}
  /\ omp.writes = {<<0, 0>>, <<1, 1>>}
  /\ Barrier("barrier3")
  /\ omp.res[0] = 1

----------------------------------------------------------------------------
(* The time a call through a step-function pointer adds to m_header.t,     *)
(* as C12 states it                                                        *)
StepTime(fct, H) ==
  CASE fct = "Do_FT_Step_full" -> H.dt
    [] fct = "Do_FT_Step_half" -> H.dt \div 2
    [] OTHER                   -> 0

(* Every call of a step function in the loop adds its StepTime to t *)
StepAdvance ==
  Len(oplog') = Len(oplog) + 1 =>
    m_header'.t = m_header.t + StepTime(oplog'[Len(oplog')], m_header)

(* C12 as stated: Do_FT_Step_full adds dt to t, Do_FT_Step_half adds dt/2, *)
(* Do_NL_Step and the no-op step add nothing; when the i-th outer          *)
(* iteration of a propagating stage has run, t is i*Nk*dt past its value   *)
(* at the start of the stage, and when the loop has ended it is Na*Nk*dt   *)
(* past it.                                                                *)
C12_Original ==
  /\ [][StepAdvance]_vars
  /\ [](pc = "cadence" => m_header.t = tStart + i * seq.Nk * seq.dt)
  /\ [](pc = "teardown" => m_header.t = tStart + Na * seq.Nk * seq.dt)

(* C12 as amended: the same for a stage whose operator is the potential    *)
(* step or the no-op step and whose Nk is at least 1, with the number of   *)
(* iterations run, which is Na or 0 when Na is negative.  In a stage named *)
(* half_step or full_step every call of the stage operator advances t as   *)
(* well, so that an outer iteration adds Nk*(dt + dt/2) or Nk*(dt + dt);   *)
(* with Nk below 1 the inner loop is empty and an outer iteration adds dt  *)
(* and one call of the stage operator.                                     *)
IterationsRun == IF Na > 0 THEN Na ELSE 0

PlainStage(d) == d.name \in {"freeprop", "freeprop_lin"} /\ d.Nk >= 1

C12_TimeAdvance ==
  /\ [][StepAdvance]_vars
  /\ []((pc = "cadence" /\ PlainStage(seq)) =>
          m_header.t = tStart + i * seq.Nk * seq.dt)
  /\ []((pc = "teardown" /\ PlainStage(seq)) =>
          m_header.t = tStart + IterationsRun * seq.Nk * seq.dt)
  /\ []((pc = "cadence" /\ seq.Nk >= 1) =>
          m_header.t = tStart + i * seq.Nk * (seq.dt + StageOperatorTime(seq)))
  /\ []((pc = "cadence" /\ seq.Nk < 1) =>
          m_header.t = tStart + i * (seq.dt + StageOperatorTime(seq)))
  /\ [](pc = "teardown" => m_header.t = tStart + IterationsRun * IterationTime(seq))

C12_Witness ==
  /\ pc = "teardown"
  /\ seq.name = "freeprop"
  /\ seq.dt = 2
  /\ Nk = 2
  /\ Na = 2
  /\ Len(oplog) = 10
  /\ m_header.t = tStart + 8

----------------------------------------------------------------------------
(* The external potential: Init_Potential and Setup_Potential, called by   *)
(* the owner of the engine before run_sequence                             *)

(* vector::resize(m_no_of_pts, 0): elements already there keep their value *)
Resize(v) == [l \in Pts |-> IF l \in DOMAIN v THEN v[l] ELSE 0]

Init_Potential ==
  /\ pc = "idle"
  /\ m_Potential' = [c \in Comps |-> Resize(m_Potential[c])]
  /\ m_potenial_initialized' = TRUE
  /\ Called("Init_Potential", 0, "returned", <<>>)
  /\ UNCHANGED <<m_header, m_fields, m_half_step, m_full_step, m_custom_fct,
                 m_sequence, files, pc, locals, history, omp>>

(* Arguments tried: comp and index below, inside and beyond their ranges *)
PotentialComps == (0 - 1) .. no_int_states

PotentialIndices == (0 - 1) .. m_no_of_pts

PotentialVals == {1}

(* throw; with no operand: rethrows the exception being handled when the   *)
(* call is made from inside a catch block, and calls std::terminate when   *)
(* no exception is being handled                                           *)
BareThrow(handling) == IF handling THEN "rethrown" ELSE "terminated"

(* assert( comp > -1 && comp < no_int_states );                            *)
(* assert( index > -1 && comp < m_no_of_pts );                             *)
Setup_Potential_asserts(comp, index) ==
  /\ comp > -1 /\ comp < no_int_states
  /\ index > -1 /\ comp < m_no_of_pts

Setup_Potential ==
  /\ pc = "idle"
  /\ \E comp \in PotentialComps, index \in PotentialIndices, val \in PotentialVals,
        handling \in BOOLEAN :
       \/ /\ m_potenial_initialized = FALSE
          /\ Called("Setup_Potential", comp, BareThrow(handling), <<>>)
          /\ pc' = IF handling THEN pc ELSE "terminated"
          /\ UNCHANGED <<engine, m_sequence, files, locals, history, omp>>
       \/ /\ m_potenial_initialized
          /\ ~Setup_Potential_asserts(comp, index)
          /\ Called("Setup_Potential", comp, "aborted", <<>>)
          /\ pc' = "aborted"
          /\ UNCHANGED <<engine, m_sequence, files, locals, history, omp>>
       \/ /\ m_potenial_initialized
          /\ Setup_Potential_asserts(comp, index)
          /\ index \in Pts
          /\ Called("Setup_Potential", comp, "returned", <<>>)
          /\ m_Potential' = [m_Potential EXCEPT ![comp][index] = val]
          /\ UNCHANGED <<m_header, m_fields, m_half_step, m_full_step,
                         m_potenial_initialized, m_custom_fct, m_sequence, files,
                         pc, locals, history, omp>>
       \* index >= m_no_of_pts passes both asserts: the write is past the end
       \* of the vector, which is undefined: the process dies on it ...
       \/ /\ m_potenial_initialized
          /\ Setup_Potential_asserts(comp, index)
          /\ index \notin Pts
          /\ Called("Setup_Potential", comp, "crashed", <<>>)
          /\ pc' = "crashed"
          /\ UNCHANGED <<engine, m_sequence, files, locals, history, omp>>
       \* ... or the write lands in memory that holds none of the engine's data ...
       \/ /\ m_potenial_initialized
          /\ Setup_Potential_asserts(comp, index)
          /\ index \notin Pts
          /\ Called("Setup_Potential", comp, "returned", <<>>)
          /\ UNCHANGED <<engine, m_sequence, files, pc, locals, history, omp>>
       \* ... or in the potential of another component
       \/ /\ m_potenial_initialized
          /\ Setup_Potential_asserts(comp, index)
          /\ index \notin Pts
          /\ Called("Setup_Potential", comp, "returned", <<>>)
          /\ \E victim \in Comps \ {comp}, l \in Pts :
               m_Potential' = [m_Potential EXCEPT ![victim][l] = val]
          /\ UNCHANGED <<m_header, m_fields, m_half_step, m_full_step,
                         m_potenial_initialized, m_custom_fct, m_sequence, files,
                         pc, locals, history, omp>>

(* Runs of one stage, after any calls of Init_Potential and Setup_Potential *)
PotentialDescs ==
  {d \in Descs : d.name = "freeprop" => (d.dt = 2 /\ d.duration = <<8>>)}

InitPotential ==
  \E fileDt \in FileDts, cfgDt \in ConfigDts :
    \E sequence \in {<<>>} \cup {<<d>> : d \in PotentialDescs} :
      Constructor(fileDt, cfgDt, sequence, NoFiles)

NextPotential == Next \/ Init_Potential \/ Setup_Potential

SpecPotential == InitPotential /\ [][NextPotential]_vars

----------------------------------------------------------------------------
(* C13: a call of Setup_Potential made before Init_Potential fails with an *)
(* exception the caller can catch, after which the engine can still be     *)
(* used; the potential arrays are still absent and every field is as it    *)
(* was.                                                                    *)
Catchable == {"thrown", "rethrown", "out_of_range"}

C13_SetupBeforeInit ==
  (call.fn = "Setup_Potential" /\ ~m_potenial_initialized) =>
    /\ call.outcome \in Catchable
    /\ pc \notin {"terminated", "aborted", "crashed"}
    /\ m_Potential = [c \in Comps |-> <<>>]
    /\ m_fields = call.before

----------------------------------------------------------------------------
(* C14: seq_counter is 1 plus the number of propagating stages the run has *)
(* finished: it is set to 1 when run_sequence starts, goes up by one at    *)
(* the end of a propagating stage and changes nowhere else, so not in a    *)
(* set_momentum stage and not in a stage run_custom_sequence handles.  A   *)
(* packed file is written only in the cadence block of a propagating       *)
(* stage, under the name Seq_n_<component> with n the rank of that stage   *)
(* among the propagating stages of the list; and the packed files of a     *)
(* finished stage are not written again by a later stage: they keep their  *)
(* frames, one per outer iteration of the stage that wrote them.           *)
PropagatingBefore(n) ==
  Cardinality({p \in 1 .. (n - 1) : IsPropagating(m_sequence[p])})

StageNumber(n) == 1 + PropagatingBefore(n)

IsPacked(name) == name[1] = "Seq"

PackedWritten ==
  {name \in DOMAIN files' : IsPacked(name) /\ files'[name] # FileFrames(name)}

(* Frames a finished stage with the packed cadence has appended *)
FramesOf(d) ==
  IF d.output_freq # "packed" \/ d.Nk = 0 \/ ComputeNa(d) < 0 THEN 0 ELSE ComputeNa(d)

C14_StageCounter ==
  /\ [](pc # "idle" => seq_counter = StageNumber(idx))
  /\ [][seq_counter' # seq_counter =>
          \/ (pc = "idle" /\ seq_counter' = 1)
          \/ (pc = "teardown" /\ IsPropagating(seq) /\ seq_counter' = seq_counter + 1)]_vars
  /\ [][\A name \in PackedWritten :
          /\ pc = "cadence"
          /\ IsPropagating(seq)
          /\ name \in {PackedName(StageNumber(idx), k + 1) : k \in Comps}]_vars
  /\ [](pc # "idle" =>
          \A p \in 1 .. (idx - 1), k \in Comps :
            IsPropagating(m_sequence[p]) =>
              LET fr == FileFrames(PackedName(StageNumber(p), k + 1))
              IN  /\ Len(fr) = FramesOf(m_sequence[p])
                  /\ \A n \in 1 .. Len(fr) : fr[n].header.dt = m_sequence[p].dt)

C14_Witness ==
  /\ pc = "teardown"
  /\ Len(m_sequence) = 2
  /\ idx = 2
  /\ m_sequence[1].name = "set_momentum"
  /\ kicks = 1
  /\ seq.output_freq = "packed"
  /\ seq_counter = 1
  /\ Len(FileFrames(PackedName(1, 1))) = 2
  /\ PackedName(2, 1) \in DOMAIN files

====
